---- MODULE Spec2Model ----
(***************************************************************************)
(* Model of raygard/lcs_diff_demo (src/python): the three LCS engines      *)
(* hm.LCS (Hunt-McIlroy), hs.LCS (Hunt-Szymanski), kc.LCS (Kuo-Cross) and  *)
(* the unified-diff hunk builder diff.diff.                                *)
(*                                                                         *)
(* Encoding of values.  Sequence elements are integers.  An int list is    *)
(* itself; a list of text lines is encoded by an order-preserving          *)
(* numbering of the strings in which 0 is the empty string '' (the least   *)
(* string).  Under this encoding the sentinel hm.LCS inserts, (0, '') for  *)
(* str and (0, 0) for int, is the pair <<0, 0>> in both cases.             *)
(*                                                                         *)
(* Python lists are 0-based.  Arrays of the code (V, E, P, K, thresh,      *)
(* link, J) are functions over 0..len-1 and keep the code's indexes.  The  *)
(* inputs A and B are TLA+ sequences, so the code's A[i-1] is A[i].        *)
(* A chain link (i, j, prev) is the sequence of <<i, j>> pairs from the    *)
(* root of the chain to its tip; None is the empty sequence.               *)
(***************************************************************************)
EXTENDS Integers, Sequences, FiniteSets, TLC

\* caller   who calls the engine: "diff" (diff.diff) or "direct" (a caller of
\*          LCS(A, B) with two int lists)
\* algo     the engine: "hm", "hs" or "kc"
\* A, B     the two sequences (a, b in diff)
\* pc       position: "call", "hm_loop", "hm_merge", "returned", "diff_loop",
\*          "done", "failed"
\* err      "none", or the assertion / index error that ended the run
\* lcs      the engine's result; in diff, the list with the dummies inserted
\* thresh   the final thresh array of hs.LCS / kc.LCS
\* E, P, K, i  locals of hm.LCS;  r, c, p  locals of hm.merge
\* k        k of hm.LCS while it runs, k of diff.diff afterwards
\* endflag, ncommon   locals of diff.diff
\* out      the lines printed; a body line also records the line numbers
\*          of a and b it was taken from
\* hunks    for every hunk printed, its first, last, begin_lcs, limit_lcs
VARIABLES caller, algo, A, B, pc, err, lcs, thresh, E, P, K, k, i, r,
          c, p, endflag, ncommon, out, hunks

vars == <<caller, algo, A, B, pc, err, lcs, thresh, E, P, K, k, i, r,
          c, p, endflag, ncommon, out, hunks>>

(***************************** bounds **************************************)
\* longest sequence of the exhaustively enumerated inputs
MaxLen == 3
\* longest run of common lines before the first / after the last change
\* of a two-change input
MaxCtx == 4
\* longest run of common lines between the two changes of such an input
MaxMid == 7

\* values of an int list handed directly to an engine
IntVals == -1 .. 1
\* values of text lines read by diff (0 is the empty line)
LineVals == 0 .. 1

(***************************** helpers *************************************)
Min2(x, y) == IF x < y THEN x ELSE y
Max2(x, y) == IF x > y THEN x ELSE y

None == <<>>
Link(li, lj, prev) == Append(prev, <<li, lj>>)
Tip(ch) == ch[Len(ch)]

\* Python's index of a list of length len: a negative index counts from the end
PyIdx(x, len) == IF x < 0 THEN x + len ELSE x

\* len(a) - 1 of a non-empty 0-based array
LastIdx(f) == CHOOSE x \in DOMAIN f : \A y \in DOMAIN f : y <= x

LexLess(x, y) == x[1] < y[1] \/ (x[1] = y[1] /\ x[2] < y[2])

\* sorted() of a set of pairs with distinct keys, ascending by (x[1], x[2])
RECURSIVE SortLex(_)
SortLex(S) ==
  IF S = {} THEN <<>>
  ELSE LET mn == CHOOSE x \in S : \A y \in S : x = y \/ LexLess(x, y)
       IN  <<mn>> \o SortLex(S \ {mn})

\* bisect.bisect_left(a, x, lo, hi, key=kf) on a 0-based array whose keys are
\* keys[0..]: the loop of hm.py lines 68-77 / 136-143
RECURSIVE BisectLeft(_, _, _, _)
BisectLeft(keys, x, lo, hi) ==
  IF lo < hi
  THEN LET mid == (lo + hi) \div 2
       IN  IF keys[mid] < x THEN BisectLeft(keys, x, mid + 1, hi)
           ELSE BisectLeft(keys, x, lo, mid)
  ELSE lo

(************************* hs.py / kc.py ***********************************)
\* hs.py line 24-25: sorted(zip(S, range(1, len+1)), key=(t[0], -t[1]))
hs_sorted(S) ==
  LET s == SortLex({<<S[x], -x>> : x \in 1..Len(S)})
  IN  [t \in 1..Len(s) |-> <<s[t][1], -s[t][2]>>]

\* kc.py line 23-24: sorted(zip(S, range(1, len+1)))
kc_sorted(S) == SortLex({<<S[x], x>> : x \in 1..Len(S)})

\* first 0-based index >= idx whose value differs from v (or the length):
\* the inner while loops of the merge scan
RECURSIVE RunEnd(_, _, _)
RunEnd(ss, idx, v) ==
  IF idx < Len(ss) /\ ss[idx + 1][1] = v THEN RunEnd(ss, idx + 1, v) ELSE idx

\* Step 1 of hs.py / kc.py: the merge scan building matchlist
RECURSIVE MatchScan(_, _, _, _, _)
MatchScan(aa, bb, ai, bi, ml) ==
  IF ~(ai < Len(aa) /\ bi < Len(bb)) THEN ml
  ELSE LET av == aa[ai + 1][1]
           bv == bb[bi + 1][1]
       IN  IF av < bv THEN MatchScan(aa, bb, ai + 1, bi, ml)
           ELSE IF av > bv THEN MatchScan(aa, bb, ai, bi + 1, ml)
           ELSE LET kk   == aa[ai + 1][2]
                    bend == RunEnd(bb, bi, bv)
                    js   == ml[kk] \o [t \in 1..(bend - bi) |-> bb[bi + t][2]]
                    aend == RunEnd(aa, ai + 1, av)
                    same == {aa[t + 1][2] : t \in (ai + 1)..(aend - 1)}
                    ml2  == [x \in DOMAIN ml |->
                               IF x = kk \/ x \in same THEN js ELSE ml[x]]
                IN  MatchScan(aa, bb, aend, bend, ml2)

hs_matchlist(As, Bs) ==
  MatchScan(hs_sorted(As), hs_sorted(Bs), 0, 0, [x \in 0..Len(As) |-> <<>>])

kc_matchlist(As, Bs) ==
  MatchScan(kc_sorted(As), kc_sorted(Bs), 0, 0, [x \in 0..Len(As) |-> <<>>])

\* Step 2: thresh = [n+1] * (m+1); thresh[0] = 0;  link = [None] * (m+1)
InitThresh(m, n) ==
  [thresh |-> [x \in 0..m |-> IF x = 0 THEN 0 ELSE n + 1],
   link   |-> [x \in 0..m |-> None],
   ok     |-> TRUE]

\* hs.py lines 52-56: one candidate j of row i
hs_Cand(st, m, ri, j) ==
  LET kk == BisectLeft(st.thresh, j, 0, m + 1)
  IN  IF kk > m THEN [st EXCEPT !.ok = FALSE]
      ELSE IF j < st.thresh[kk]
      THEN [thresh |-> [st.thresh EXCEPT ![kk] = j],
            link   |-> [st.link EXCEPT
                          ![kk] = Link(ri, j, st.link[PyIdx(kk - 1, m + 1)])],
            ok     |-> TRUE]
      ELSE st

\* hs.py line 50: for j in matchlist[i]   (an IndexError ends the run)
RECURSIVE hs_Row(_, _, _, _, _)
hs_Row(st, m, ri, js, x) ==
  IF x > Len(js) THEN st
  ELSE LET nx == hs_Cand(st, m, ri, js[x])
       IN  IF ~nx.ok THEN nx ELSE hs_Row(nx, m, ri, js, x + 1)

\* hs.py line 49: for i in range(1, m+1)
RECURSIVE hs_Rows(_, _, _, _)
hs_Rows(st, m, ml, ri) ==
  IF ri > m THEN st
  ELSE LET nx == hs_Row(st, m, ri, ml[ri], 1)
       IN  IF ~nx.ok THEN nx ELSE hs_Rows(nx, m, ml, ri + 1)

\* kc.py lines 56-57: while j > thresh[k]: k += 1   (m+1 when it runs off)
RECURSIVE kc_Advance(_, _, _, _)
kc_Advance(th, m, kk, j) ==
  IF kk > m THEN m + 1
  ELSE IF j > th[kk] THEN kc_Advance(th, m, kk + 1, j) ELSE kk

\* kc_Cand with link[k-1] read after link[r] = c instead of before it
kc_Cand_LinkAfterWrite(rs, m, ri, j) ==
  IF ~(j > rs.temp) THEN rs
  ELSE LET kk == kc_Advance(rs.thresh, m, rs.k + 1, j)
       IN  IF kk > m THEN [rs EXCEPT !.ok = FALSE]
           ELSE LET temp == rs.thresh[kk]
                IN  IF j < temp
                    THEN LET l1 == [rs.link EXCEPT ![rs.r] = rs.c]
                         IN [thresh |-> [rs.thresh EXCEPT ![kk] = j],
                             link   |-> l1,
                             k |-> kk, temp |-> temp, r |-> kk,
                             c |-> Link(ri, j, l1[PyIdx(kk - 1, m + 1)]),
                             ok |-> TRUE]
                    ELSE [rs EXCEPT !.k = kk, !.temp = temp]

\* kc.py lines 54-65: one candidate j of row i; rs carries the row's locals
kc_Cand(rs, m, ri, j) ==
  IF ~(j > rs.temp) THEN rs
  ELSE LET kk == kc_Advance(rs.thresh, m, rs.k + 1, j)
       IN  IF kk > m THEN [rs EXCEPT !.ok = FALSE]
           ELSE LET temp == rs.thresh[kk]
                IN  IF j < temp
                    THEN LET prev_c == rs.link[PyIdx(kk - 1, m + 1)]
                         IN [thresh |-> [rs.thresh EXCEPT ![kk] = j],
                             link   |-> [rs.link EXCEPT ![rs.r] = rs.c],
                             k |-> kk, temp |-> temp, r |-> kk,
                             c |-> Link(ri, j, prev_c),
                             ok |-> TRUE]
                    ELSE [rs EXCEPT !.k = kk, !.temp = temp]

\* kc.py line 53: for j in matchlist[i]   (an IndexError ends the run)
RECURSIVE kc_RowLoop(_, _, _, _, _)
kc_RowLoop(rs, m, ri, js, x) ==
  IF x > Len(js) THEN rs
  ELSE LET nx == kc_Cand(rs, m, ri, js[x])
       IN  IF ~nx.ok THEN nx ELSE kc_RowLoop(nx, m, ri, js, x + 1)

\* kc.py lines 49-68: one row i, ending with link[r] = c
kc_Row(st, m, ri, js) ==
  LET rs0 == [thresh |-> st.thresh, link |-> st.link, k |-> 0, temp |-> 0,
              r |-> 0, c |-> st.link[0], ok |-> st.ok]
      rs  == kc_RowLoop(rs0, m, ri, js, 1)
  IN  [thresh |-> rs.thresh, link |-> [rs.link EXCEPT ![rs.r] = rs.c],
       ok |-> rs.ok]

\* kc.py line 48: for i in range(1, m+1)
RECURSIVE kc_Rows(_, _, _, _)
kc_Rows(st, m, ml, ri) ==
  IF ri > m THEN st
  ELSE LET nx == kc_Row(st, m, ri, ml[ri])
       IN  IF ~nx.ok THEN nx ELSE kc_Rows(nx, m, ml, ri + 1)

\* Step 4, lines "k = 0; while k < m and thresh[k+1] != n + 1: k += 1"
RECURSIVE LastFilled(_, _, _, _)
LastFilled(th, m, n, kk) ==
  IF kk < m /\ th[kk + 1] # n + 1 THEN LastFilled(th, m, n, kk + 1) ELSE kk

\* Step 4: p = link[k]; walk to the root; reverse
Recover(st, m, n) ==
  [v |-> st.link[LastFilled(st.thresh, m, n, 0)], thresh |-> st.thresh,
   ok |-> st.ok]

hs_LCS(As, Bs) ==
  LET m == Len(As)
      n == Len(Bs)
  IN  Recover(hs_Rows(InitThresh(m, n), m, hs_matchlist(As, Bs), 1), m, n)

kc_LCS(As, Bs) ==
  LET m == Len(As)
      n == Len(Bs)
  IN  Recover(kc_Rows(InitThresh(m, n), m, kc_matchlist(As, Bs), 1), m, n)

(****************************** hm.py ***************************************)
\* hm.py lines 36-48: V = [(0, sentinel)] + zip(1..n, B), sorted by
\* (value, position); V[j] = <<position, value>>.  V is empty when B is.
\* The sentinel is (0, '') for str and (0, 0) for int, <<0, 0>> as encoded;
\* the TypeError of line 44 needs a value that is neither and is left out.
hm_V(Bs) ==
  LET n  == Len(Bs)
      s  == SortLex({<<Bs[x], x>> : x \in 1..n}
                    \cup (IF n > 0 THEN {<<0, 0>>} ELSE {}))
  IN  [j \in 0..(Len(s) - 1) |-> <<s[j + 1][2], s[j + 1][1]>>]

\* hm.py lines 52-53: E[j] = <<V[j][0], j is the last of its class>>
hm_E(Bs) ==
  LET n == Len(Bs)
      V == hm_V(Bs)
  IN  [j \in 0..n |->
         IF j = 0 THEN <<0, TRUE>>
         ELSE <<V[j][1], j = n \/ V[j][2] # V[j + 1][2]>>]

\* hm.py line 66: j = bisect_left(V, A[i-1], 1, len(V), key=value)
hm_Find(Bs, x) ==
  LET V == hm_V(Bs)
      lenV == IF Len(Bs) > 0 THEN Len(Bs) + 1 ELSE 0
  IN  BisectLeft([j \in DOMAIN V |-> V[j][2]], x, 1, lenV)

\* hm.py line 79: assert E[j-1][1], for the j found for A[i-1]
hm_Assert79(As, Bs) ==
  \A x \in 1..Len(As) : hm_E(Bs)[hm_Find(Bs, As[x]) - 1][2]

\* hm.py lines 57-81: P[i] = j if j < len(V) and V[j][1] == A[i-1], else 0
hm_P(As, Bs) ==
  LET V == hm_V(Bs)
      lenV == IF Len(Bs) > 0 THEN Len(Bs) + 1 ELSE 0
  IN  [x \in 0..Len(As) |->
         IF x = 0 THEN 0
         ELSE LET j == hm_Find(Bs, As[x])
              IN  IF j < lenV /\ V[j][2] = As[x] THEN j ELSE 0]

\* hm_K0 with one slot too few: K = [None] * (min(m, n) + 1)
hm_K0_Short(m, n) ==
  [x \in 0..Max2(Min2(m, n), 1) |->
     IF x = 0 THEN <<<<0, 0>>>>
     ELSE IF x = 1 THEN <<<<m + 1, n + 1>>>> ELSE None]

\* hm.py lines 85-86: K = [None] * (min(m, n) + 2); K[0], K[1] = fences
hm_K0(m, n) ==
  [x \in 0..(Min2(m, n) + 1) |->
     IF x = 0 THEN <<<<0, 0>>>>
     ELSE IF x = 1 THEN <<<<m + 1, n + 1>>>> ELSE None]

\* K[x][1] of the code: the B-position at the tip of chain K[x]
KJ(Ks, x) == Tip(Ks[x])[2]

\* hm.py lines 95-102: J[c[0]] = c[1] walking K[k] from the tip to the root
\* (a later, root-ward write overrides an earlier one)
hm_J(ch, m) ==
  [x \in 0..m |->
     IF \E t \in 1..Len(ch) : ch[t][1] = x
     THEN ch[CHOOSE t \in 1..Len(ch) :
               ch[t][1] = x /\ \A u \in 1..(t - 1) : ch[u][1] # x][2]
     ELSE 0]

\* hm_Pairs without the "if J[i]" filter
hm_Pairs_NoFilter(ch, m) ==
  LET J == hm_J(ch, m)
  IN  [x \in 1..(m + 1) |-> <<x - 1, J[x - 1]>>]

\* hm.py line 111: [(i, J[i]) for i in range(m+1) if J[i]]
hm_Pairs(ch, m) ==
  LET J == hm_J(ch, m)
  IN  SelectSeq([x \in 1..(m + 1) |-> <<x - 1, J[x - 1]>>],
                LAMBDA t : t[2] # 0)

\* one pass of the "while True" loop of merge (hm.py lines 126-186) from the
\* locals (r, c, p) and (K, k); brk says whether the loop is left, err names
\* a failed assertion or an index out of range
hm_MergeStep(Ks, kv, rv, cv, pv, iv, Es) ==
  LET top == LastIdx(Es)
      ktop == LastIdx(Ks)
      j   == Es[pv][1]
      s0  == BisectLeft([x \in rv..kv |-> KJ(Ks, x)], j, rv, kv + 1)
      s   == IF s0 = rv THEN s0 ELSE s0 - 1
      a   == IF s0 = rv THEN (IF j <= KJ(Ks, s) THEN "none" ELSE "assert151")
             ELSE (IF KJ(Ks, s) < j /\ j <= KJ(Ks, s + 1) THEN "none"
                   ELSE "assert156")
      \* the chained comparison K[s][1] < j < K[s+1][1] reads K[s+1] only
      \* when its first half holds
      lt  == KJ(Ks, s) < j
      bad == lt /\ (s + 1 > ktop \/ Ks[s + 1] = None)
      ext4 == lt /\ ~bad /\ j < KJ(Ks, s + 1)
      K4  == IF ext4 THEN [Ks EXCEPT ![rv] = cv] ELSE Ks
      r4  == IF ext4 THEN s + 1 ELSE rv
      c4  == IF ext4 THEN Link(iv, j, Ks[s]) ELSE cv
      grow == ext4 /\ s = kv
      over == grow /\ kv + 2 > ktop
      K5  == IF grow /\ ~over THEN [K4 EXCEPT ![kv + 2] = K4[kv + 1]] ELSE K4
      k5  == IF grow THEN kv + 1 ELSE kv
      brk == grow \/ Es[pv][2]
      e   == IF a # "none" THEN a
             ELSE IF bad \/ over \/ (~brk /\ pv + 1 > top) THEN "index"
             ELSE "none"
  IN  [K |-> K5, k |-> k5, r |-> r4, c |-> c4,
       p |-> IF brk THEN pv ELSE pv + 1, brk |-> brk, err |-> e]

(***************************** diff.py **************************************)
\* diff.py line 67
BIG == 999999999
\* diff.py line 69
nctx == 3

\* lcs[x] of the 0-based list l
At(l, x) == l[PyIdx(x, Len(l)) + 1]

\* frng dropping the count when it is 0 as well
frng_DropZero(fi, fj) == IF fj <= 1 THEN <<fi>> ELSE <<fi, fj>>

\* diff.py lines 33-34: the fields of the printed range, "i" or "i,j"
frng(fi, fj) == IF fj = 1 THEN <<fi>> ELSE <<fi, fj>>

\* at_change looking at the first coordinate only
at_change_FirstOnly(l, x) == At(l, x - 1)[1] + 1 # At(l, x)[1]

\* diff.py lines 38-39
at_change(l, x) ==
  At(l, x - 1)[1] + 1 # At(l, x)[1] \/ At(l, x - 1)[2] + 1 # At(l, x)[2]

\* diff.py lines 46-47: while not at_change(lcs, k): k += 1
RECURSIVE ScanChange(_, _)
ScanChange(l, x) == IF at_change(l, x) THEN x ELSE ScanChange(l, x + 1)

\* diff.py lines 42-48
find_next_change(l, k0) ==
  LET x == ScanChange(l, k0 + 1)
  IN  [endflag |-> x = Len(l) - 1, k |-> x, ncommon |-> x - k0]

\* Extend with "ncommon < 2 * nctx"
RECURSIVE Extend_Strict(_, _, _)
Extend_Strict(l, last, f) ==
  IF ~f.endflag /\ f.ncommon < 2 * nctx
  THEN Extend_Strict(l, f.k, find_next_change(l, f.k))
  ELSE [last |-> last, endflag |-> f.endflag, k |-> f.k,
        ncommon |-> f.ncommon]

\* diff.py lines 79-81: while not endflag and ncommon <= 2 * nctx
RECURSIVE Extend(_, _, _)
Extend(l, last, f) ==
  IF ~f.endflag /\ f.ncommon <= 2 * nctx
  THEN Extend(l, f.k, find_next_change(l, f.k))
  ELSE [last |-> last, endflag |-> f.endflag, k |-> f.k,
        ncommon |-> f.ncommon]

\* NoDifference without the comparison with len(b)
NoDifference_LenA(l, a, b) == Len(l) = Len(a)

\* diff.py line 57
NoDifference(l, a, b) == Len(l) = Len(a) /\ Len(a) = Len(b)

\* begin_lcs one match late
begin_lcs_Late(first) == Max2(first - nctx, 0)

\* diff.py line 83
begin_lcs(first) == Max2(first - 1 - nctx, 0)
\* diff.py line 87
limit_lcs(l, last) == Min2(last + nctx, Len(l) - 2)

\* a printed line: its tag and text; for a body line, the line numbers of a
\* and of b it stands for (0 when it is of the other file only); for an '@@'
\* line, the two printed ranges
Line(tg, tx, la, lb) ==
  [tag |-> tg, text |-> tx, na |-> la, nb |-> lb, ra |-> <<>>, rb |-> <<>>]

\* diff.py lines 84-90: the '@@' line
Header(l, bl, ll) ==
  LET begin_a == At(l, bl)[1] + 1
      begin_b == At(l, bl)[2] + 1
      cnt_a   == At(l, ll)[1] - begin_a
      cnt_b   == At(l, ll)[2] - begin_b
  IN  [tag |-> "@@", text |-> 0, na |-> 0, nb |-> 0,
       ra |-> frng(begin_a, cnt_a), rb |-> frng(begin_b, cnt_b)]

\* diff.py lines 95-101: what one pass of "while kk < limit_lcs" prints for kk
BodyAt(l, a, b, kk, ll) ==
  LET loa == At(l, kk - 1)[1] + 1
      lob == At(l, kk - 1)[2] + 1
      del == [t \in 1..(At(l, kk)[1] - loa) |->
                Line("-", a[loa + t - 1], loa + t - 1, 0)]
      ins == [t \in 1..(At(l, kk)[2] - lob) |->
                Line("+", b[lob + t - 1], 0, lob + t - 1)]
      ctx == IF kk < ll
             THEN <<Line(" ", a[At(l, kk)[1]], At(l, kk)[1], At(l, kk)[2])>>
             ELSE <<>>
  IN  (IF at_change(l, kk) THEN del \o ins ELSE <<>>) \o ctx

\* diff.py lines 92-101
RECURSIVE Body(_, _, _, _, _)
Body(l, a, b, kk, ll) ==
  IF kk < ll THEN BodyAt(l, a, b, kk + 1, ll) \o Body(l, a, b, kk + 1, ll)
  ELSE <<>>

(****************************** inputs *************************************)
SeqsUpTo(S, len) == UNION {[1..x -> S] : x \in 0..len}

Kinds == {"none", "del", "ins", "rep"}
ASide(kd) == IF kd \in {"del", "rep"} THEN <<1>> ELSE <<>>
BSide(kd) == IF kd \in {"ins", "rep"} THEN <<0>> ELSE <<>>
\* cnt different common lines, the first of them numbered from
Run(from, cnt) == [t \in 1..cnt |-> from + t]

\* two files with (up to) two changes: pre common lines, a change, mid
\* common lines, a change, post common lines
TwoChange ==
  {<<Run(1, pre) \o ASide(k1) \o Run(1 + pre, mid) \o ASide(k2)
        \o Run(1 + pre + mid, post),
     Run(1, pre) \o BSide(k1) \o Run(1 + pre, mid) \o BSide(k2)
        \o Run(1 + pre + mid, post)>> :
     pre \in 0..MaxCtx, post \in 0..MaxCtx, mid \in (2 * nctx - 1)..MaxMid,
     k1 \in Kinds, k2 \in Kinds}

Lines == SeqsUpTo(LineVals, MaxLen)
Ints  == SeqsUpTo(IntVals, MaxLen)

(****************************** actions ************************************)
Start(inputs) ==
  /\ algo \in {"hm", "hs", "kc"}
  /\ \E inp \in inputs : caller = inp[1] /\ A = inp[2] /\ B = inp[3]
  /\ pc = "call" /\ err = "none"
  /\ lcs = <<>> /\ thresh = <<>> /\ E = <<>> /\ P = <<>> /\ K = <<>>
  /\ k = 0 /\ i = 0 /\ r = 0 /\ c = None /\ p = 0
  /\ endflag = FALSE /\ ncommon = 0 /\ out = <<>> /\ hunks = <<>>

Init ==
  Start(({"direct"} \X Ints \X Ints) \cup ({"diff"} \X Lines \X Lines))

InitDiff ==
  Start({<<"diff", ab[1], ab[2]>> : ab \in TwoChange \cup (Lines \X Lines)})

\* hs.LCS(A, B)
HS ==
  /\ pc = "call" /\ algo = "hs"
  /\ LET res == hs_LCS(A, B)
     IN  /\ lcs' = res.v
         /\ thresh' = res.thresh
         /\ err' = IF res.ok THEN "none" ELSE "index"
         /\ pc' = IF res.ok THEN "returned" ELSE "failed"
  /\ UNCHANGED <<caller, algo, A, B, E, P, K, k, i, r, c, p, endflag, ncommon,
                 out, hunks>>

\* kc.LCS(A, B)
KC ==
  /\ pc = "call" /\ algo = "kc"
  /\ LET res == kc_LCS(A, B)
     IN  /\ lcs' = res.v
         /\ thresh' = res.thresh
         /\ err' = IF res.ok THEN "none" ELSE "index"
         /\ pc' = IF res.ok THEN "returned" ELSE "failed"
  /\ UNCHANGED <<caller, algo, A, B, E, P, K, k, i, r, c, p, endflag, ncommon,
                 out, hunks>>

\* hm.LCS lines 31-87: steps 1-5
HMSetup ==
  /\ pc = "call" /\ algo = "hm"
  /\ E' = hm_E(B)
  /\ P' = hm_P(A, B)
  /\ K' = hm_K0(Len(A), Len(B))
  /\ k' = 0 /\ i' = 1
  /\ err' = IF hm_Assert79(A, B) THEN "none" ELSE "assert79"
  /\ pc' = IF hm_Assert79(A, B) THEN "hm_loop" ELSE "failed"
  /\ UNCHANGED <<caller, algo, A, B, lcs, thresh, r, c, p, endflag, ncommon,
                 out, hunks>>

\* hm.LCS lines 90-92: the head of step 6, and merge's step 1 when it is called
HMNext ==
  /\ pc = "hm_loop" /\ i <= Len(A)
  /\ IF P[i] # 0
     THEN /\ r' = 0 /\ c' = K[0] /\ p' = P[i] /\ pc' = "hm_merge"
          /\ UNCHANGED i
     ELSE /\ i' = i + 1
          /\ UNCHANGED <<r, c, p, pc>>
  /\ UNCHANGED <<caller, algo, A, B, err, lcs, thresh, E, P, K, k, endflag,
                 ncommon, out, hunks>>

\* hm.merge lines 124-190: one pass of its loop; on leaving the loop, step 7
\* (K[r] = c; return k) and the next i of hm.LCS
HMMerge ==
  /\ pc = "hm_merge"
  /\ LET st == hm_MergeStep(K, k, r, c, p, i, E)
     IN  /\ err' = st.err
         /\ k' = st.k /\ r' = st.r /\ c' = st.c /\ p' = st.p
         /\ K' = IF st.brk /\ st.err = "none"
                 THEN [st.K EXCEPT ![st.r] = st.c] ELSE st.K
         /\ i' = IF st.brk /\ st.err = "none" THEN i + 1 ELSE i
         /\ pc' = IF st.err # "none" THEN "failed"
                  ELSE IF st.brk THEN "hm_loop" ELSE "hm_merge"
  /\ UNCHANGED <<caller, algo, A, B, lcs, thresh, E, P, endflag, ncommon, out,
                 hunks>>

\* hm.LCS lines 95-111: steps 7 and 8 and the returned pairs
HMReturn ==
  /\ pc = "hm_loop" /\ i > Len(A)
  /\ LET inrange == \A t \in 1..Len(K[k]) : K[k][t][1] <= Len(A)
     IN  /\ err' = IF inrange THEN "none" ELSE "index"
         /\ pc' = IF inrange THEN "returned" ELSE "failed"
         /\ lcs' = IF inrange THEN hm_Pairs(K[k], Len(A)) ELSE lcs
  /\ UNCHANGED <<caller, algo, A, B, thresh, E, P, K, k, i, r, c, p, endflag,
                 ncommon, out, hunks>>

\* diff.py lines 57-58: no difference found
DiffSame ==
  /\ pc = "returned" /\ caller = "diff"
  /\ NoDifference(lcs, A, B)
  /\ pc' = "done"
  /\ UNCHANGED <<caller, algo, A, B, err, lcs, thresh, E, P, K, k, i, r, c, p,
                 endflag, ncommon, out, hunks>>

\* diff.py lines 60-72: the file headers, the dummies, the first change
DiffBegin ==
  /\ pc = "returned" /\ caller = "diff"
  /\ ~NoDifference(lcs, A, B)
  /\ LET l == <<<<0, 0>>>> \o lcs
              \o <<<<Len(A) + 1, Len(B) + 1>>, <<BIG, BIG>>>>
         f == find_next_change(l, 0)
     IN  /\ lcs' = l
         /\ endflag' = f.endflag /\ k' = f.k /\ ncommon' = f.ncommon
         /\ err' = IF f.endflag THEN "assert72" ELSE "none"
         /\ pc' = IF f.endflag THEN "failed" ELSE "diff_loop"
  /\ out' = <<Line("---", 0, 0, 0), Line("+++", 0, 0, 0)>>
  /\ UNCHANGED <<caller, algo, A, B, thresh, E, P, K, i, r, c, p, hunks>>

\* diff.py lines 73-101: one pass of "while not endflag": one hunk
DiffHunk ==
  /\ pc = "diff_loop" /\ ~endflag
  /\ LET first == k
         g  == Extend(lcs, k, find_next_change(lcs, k))
         bl == begin_lcs(first)
         ll == limit_lcs(lcs, g.last)
     IN  /\ endflag' = g.endflag /\ k' = g.k /\ ncommon' = g.ncommon
         /\ out' = out \o <<Header(lcs, bl, ll)>> \o Body(lcs, A, B, bl, ll)
         /\ hunks' = Append(hunks, [first |-> first, last |-> g.last,
                                    begin_lcs |-> bl, limit_lcs |-> ll,
                                    at |-> Len(out) + 1])
  /\ UNCHANGED <<caller, algo, A, B, pc, err, lcs, thresh, E, P, K, i, r, c, p>>

\* diff.py line 73: endflag ends the loop and diff returns
DiffEnd ==
  /\ pc = "diff_loop" /\ endflag
  /\ pc' = "done"
  /\ UNCHANGED <<caller, algo, A, B, err, lcs, thresh, E, P, K, k, i, r, c, p,
                 endflag, ncommon, out, hunks>>

Next ==
  \/ HS \/ KC \/ HMSetup \/ HMNext \/ HMMerge \/ HMReturn
  \/ DiffSame \/ DiffBegin \/ DiffHunk \/ DiffEnd

Spec == Init /\ [][Next]_vars

SpecDiff == InitDiff /\ [][Next]_vars

(**************************** properties ***********************************)
\* the reference recurrence for the length of a longest common subsequence
\* of a[1..x] and b[1..y]
RECURSIVE LCSLen(_, _, _, _)
LCSLen(a, b, x, y) ==
  IF x = 0 \/ y = 0 THEN 0
  ELSE IF a[x] = b[y] THEN LCSLen(a, b, x - 1, y - 1) + 1
  ELSE Max2(LCSLen(a, b, x - 1, y), LCSLen(a, b, x, y - 1))

MinOf(S) == CHOOSE x \in S : \A y \in S : x <= y
MaxOf(S) == CHOOSE x \in S : \A y \in S : y <= x
Increasing(q) == \A t \in 1..(Len(q) - 1) : q[t] < q[t + 1]
Range(q) == {q[t] : t \in 1..Len(q)}

\* C1: when an engine returns, the length of its match list is the length of
\* a longest common subsequence of A and B (so all engines agree on it).
C1_LengthIsLCS ==
  pc = "returned" => Len(lcs) = LCSLen(A, B, Len(A), Len(B))

\* C1, for the engines and inputs on which it holds: hs.LCS, kc.LCS, and
\* hm.LCS when no value of B is negative (text lines, non-negative ints).
C1_LengthIsLCS_NoNegativeB ==
  (pc = "returned" /\ (algo # "hm" \/ \A x \in 1..Len(B) : B[x] >= 0)) =>
    Len(lcs) = LCSLen(A, B, Len(A), Len(B))

\* C2: every returned pair (i, j) has 1 <= i <= |A|, 1 <= j <= |B| and
\* A[i-1] = B[j-1], and the pairs increase strictly in both coordinates.
C2_PairsValid ==
  pc = "returned" =>
    /\ \A t \in 1..Len(lcs) :
         /\ lcs[t][1] \in 1..Len(A)
         /\ lcs[t][2] \in 1..Len(B)
         /\ A[lcs[t][1]] = B[lcs[t][2]]
    /\ \A t \in 1..(Len(lcs) - 1) :
         lcs[t][1] < lcs[t + 1][1] /\ lcs[t][2] < lcs[t + 1][2]

\* hm.LCS has returned two pairs for sequences in which a value repeats
C2_Witness ==
  /\ pc = "returned" /\ algo = "hm" /\ Len(lcs) = 2
  /\ Len(A) = 3 /\ A[1] = A[3] /\ Len(B) = 3 /\ B[1] = B[2]

\* the '@@' lines of the output, and the body lines that follow one
Headers == {x \in 1..Len(out) : out[x].tag = "@@"}
BodyOf(x) ==
  LET nxt == {y \in Headers : y > x}
  IN  SubSeq(out, x + 1, IF nxt = {} THEN Len(out) ELSE MinOf(nxt) - 1)
Tagged(q, tags) == SelectSeq(q, LAMBDA ln : ln.tag \in tags)

\* C3: diff of identical sequences prints nothing; diff of sequences that
\* differ ends normally having printed the two file headers and a hunk.
C3_Identity ==
  /\ caller = "diff" => pc # "failed"
  /\ pc = "done" =>
       /\ A = B <=> out = <<>>
       /\ A # B => /\ Len(out) >= 3
                   /\ out[1].tag = "---" /\ out[2].tag = "+++"
                   /\ out[3].tag = "@@"

\* diff has ended on two identical files of three lines
C3_Witness == pc = "done" /\ A = B /\ Len(A) = 3 /\ out = <<>>


\* C4: for A = [] and B = ["a"] the output is the file headers, the hunk
\* header '@@ -0,0 +1 @@' and the line '+a'.
C4_EmptyAgainstOneLine ==
  (pc = "done" /\ A = <<>> /\ B = <<1>>) =>
    out = <<Line("---", 0, 0, 0), Line("+++", 0, 0, 0),
            [tag |-> "@@", text |-> 0, na |-> 0, nb |-> 0,
             ra |-> <<0, 0>>, rb |-> <<1>>],
            Line("+", 1, 0, 1)>>

\* a printed range "start[,count]" describes cnt lines of which the first
\* is line number q[1] (q the line numbers, in print order)
RangeDescribes(rg, q) ==
  /\ Len(rg) = (IF Len(q) = 1 THEN 1 ELSE 2)
  /\ Len(rg) = 2 => rg[2] = Len(q)
  /\ Len(q) > 0 => rg[1] = q[1]

\* C5: the header of every hunk gives, for each side, the number of body
\* lines of that side and the position of the first of them; the count is
\* left out exactly when it is 1.
C5_HeaderDescribesBody ==
  \A x \in Headers :
    LET olds == Tagged(BodyOf(x), {" ", "-"})
        news == Tagged(BodyOf(x), {" ", "+"})
    IN  /\ RangeDescribes(out[x].ra, [t \in 1..Len(olds) |-> olds[t].na])
        /\ RangeDescribes(out[x].rb, [t \in 1..Len(news) |-> news[t].nb])

\* a hunk has been printed with no line of a (count 0) and one line of b
C5_Witness ==
  \E x \in Headers :
    /\ Len(out[x].ra) = 2 /\ out[x].ra[2] = 0
    /\ Len(out[x].rb) = 1
    /\ Len(BodyOf(x)) = 1

\* the engine's match list, without the dummies diff inserts
Matches == IF out = <<>> THEN lcs ELSE SubSeq(lcs, 2, Len(lcs) - 2)

RngCount(rg) == IF Len(rg) = 1 THEN 1 ELSE rg[2]
Texts(q) == [t \in 1..Len(q) |-> q[t].text]

\* a with, for every hunk of hs (indexes of '@@' lines, ascending), the lines
\* the header names replaced by the hunk's ' ' and '+' lines; pos is the
\* first line of a not yet copied
RECURSIVE Patch(_, _, _, _)
Patch(a, hs, pos, acc) ==
  IF hs = <<>> THEN acc \o SubSeq(a, pos, Len(a))
  ELSE LET x == Head(hs)
           st == out[x].ra[1]
       IN  Patch(a, Tail(hs), st + RngCount(out[x].ra),
                 acc \o SubSeq(a, pos, st - 1)
                     \o Texts(Tagged(BodyOf(x), {" ", "+"})))

RECURSIVE Ascending(_)
Ascending(S) ==
  IF S = {} THEN <<>> ELSE <<MinOf(S)>> \o Ascending(S \ {MinOf(S)})

\* C6: over the whole output, the '-' lines are the unmatched positions of
\* A and the '+' lines the unmatched positions of B, each once and in
\* ascending order, no '-' line directly follows a '+' line, every ' ' line
\* is a matched pair printed at most once, and patching A with the hunks
\* gives B.
C6_HunksAreTheEditScript ==
  pc = "done" =>
    LET dels == Tagged(out, {"-"})
        inss == Tagged(out, {"+"})
        ctxs == Tagged(out, {" "})
        ma   == {Matches[t][1] : t \in 1..Len(Matches)}
        mb   == {Matches[t][2] : t \in 1..Len(Matches)}
    IN  /\ [t \in 1..Len(dels) |-> dels[t].na] = Ascending((1..Len(A)) \ ma)
        /\ [t \in 1..Len(inss) |-> inss[t].nb] = Ascending((1..Len(B)) \ mb)
        /\ \A t \in 1..Len(dels) : dels[t].text = A[dels[t].na]
        /\ \A t \in 1..Len(inss) : inss[t].text = B[inss[t].nb]
        /\ \A t \in 1..(Len(out) - 1) :
             ~(out[t].tag = "+" /\ out[t + 1].tag = "-")
        /\ \A t \in 1..Len(ctxs) :
             /\ <<ctxs[t].na, ctxs[t].nb>> \in Range(Matches)
             /\ ctxs[t].text = A[ctxs[t].na]
        /\ Increasing([t \in 1..Len(ctxs) |-> ctxs[t].na])
        /\ \A x \in Headers :
             Texts(Tagged(BodyOf(x), {" ", "-"}))
               = SubSeq(A, out[x].ra[1],
                        out[x].ra[1] + RngCount(out[x].ra) - 1)
        /\ Patch(A, Ascending(Headers), 1, <<>>) = B

\* diff has ended after printing a deleted line, an inserted line and a
\* context line
C6_Witness ==
  /\ pc = "done"
  /\ Len(Tagged(out, {"-"})) >= 1 /\ Len(Tagged(out, {"+"})) >= 1
  /\ Len(Tagged(out, {" "})) >= 1

\* the change points of the list with its two dummies (the BIG sentinel
\* excluded), and the hunks a change point was put in
Changes == {x \in 1..(Len(lcs) - 2) : at_change(lcs, x)}
HunkOf(x) ==
  {h \in 1..Len(hunks) : hunks[h].first <= x /\ x <= hunks[h].last}

\* C7: two consecutive change points are in the same hunk exactly when at
\* most 2 * nctx = 6 common lines lie between them, every change point is in
\* one hunk, one hunk is printed per group, and the scan has ended exactly
\* when k is at the BIG sentinel.
C7_Grouping ==
  pc \in {"diff_loop", "done"} /\ out # <<>> =>
    /\ endflag <=> k = Len(lcs) - 1
    /\ pc = "done" =>
         /\ endflag
         /\ Cardinality(Headers) = Len(hunks)
         /\ \A x \in Changes : Cardinality(HunkOf(x)) = 1
         /\ \A x \in Changes : \A y \in Changes :
              (x < y /\ \A z \in Changes : ~(x < z /\ z < y)) =>
                (HunkOf(x) = HunkOf(y) <=> y - x <= 2 * nctx)

\* diff has ended with two hunks for two changes that exactly 7 common lines
\* separate
C7_Witness ==
  /\ pc = "done" /\ Len(hunks) = 2
  /\ hunks[2].first - hunks[1].last = 2 * nctx + 1

\* the number of ' ' lines at the start and at the end of a hunk body
Lead(bd) == MinOf({t \in 1..Len(bd) : bd[t].tag # " "}) - 1
Trail(bd) == Len(bd) - MaxOf({t \in 1..Len(bd) : bd[t].tag # " "})

\* C8: a hunk starts with min(nctx, cpre) context lines, cpre the common
\* lines between the previous change (or the start) and its first change,
\* and ends with min(nctx, cpost) context lines, cpost the common lines
\* between its last change and the next change (or the end); begin_lcs and limit_lcs stay
\* within the matches and the two dummies.
C8_ContextClamped ==
  \A h \in 1..Len(hunks) :
    LET hk   == hunks[h]
        bd   == BodyOf(hk.at)
        prev == {x \in Changes : x < hk.first}
        nxt  == {x \in Changes : x > hk.last}
        cpre == hk.first - (IF prev = {} THEN 1 ELSE MaxOf(prev))
        cpost == (IF nxt = {} THEN Len(lcs) - 2 ELSE MinOf(nxt)) - hk.last
    IN  /\ out[hk.at].tag = "@@"
        /\ Lead(bd) = Min2(nctx, cpre)
        /\ Trail(bd) = Min2(nctx, cpost)
        /\ 0 <= hk.begin_lcs /\ hk.begin_lcs < hk.limit_lcs
        /\ hk.limit_lcs <= Len(lcs) - 2

\* a hunk has been printed with 3 of 4 common lines before its first change
\* and only 2 common lines left after its last
C8_Witness ==
  \E h \in 1..Len(hunks) :
    /\ hunks[h].first = nctx + 2
    /\ Lead(BodyOf(hunks[h].at)) = nctx
    /\ Trail(BodyOf(hunks[h].at)) = nctx - 1

\* C9: kc.LCS ends with the thresh array and returns the list of pairs that
\* hs.LCS computes for the same sequences.
C9_KCEqualsHS ==
  (pc = "returned" /\ algo = "kc") =>
    /\ lcs = hs_LCS(A, B).v
    /\ thresh = hs_LCS(A, B).thresh

\* kc.LCS has returned for sequences that have several longest common
\* subsequences, one row of which improved two thresholds
C9_Witness ==
  /\ pc = "returned" /\ algo = "kc"
  /\ A = <<0, 1>> /\ B = <<1, 0, 1>>
  /\ lcs = <<<<1, 2>>, <<2, 3>>>>

\* C10: hm.LCS fails no assertion and leaves no array; while it runs the
\* B-positions of K[0..k+1] increase strictly from the fence 0 to the fence
\* n + 1, and k + 1 is a slot of K.
C10_HMConsistent ==
  /\ algo = "hm" => err = "none" /\ pc # "failed"
  /\ pc \in {"hm_loop", "hm_merge"} =>
       /\ k + 1 <= LastIdx(K)
       /\ LastIdx(K) = Min2(Len(A), Len(B)) + 1
       /\ \A x \in 0..(k + 1) : K[x] # None
       /\ KJ(K, 0) = 0 /\ KJ(K, k + 1) = Len(B) + 1
       /\ \A x \in 0..k : KJ(K, x) < KJ(K, x + 1)

\* merge has grown K up to its last slot and is called again
C10_Witness ==
  /\ pc = "hm_merge" /\ r = 0
  /\ k = Min2(Len(A), Len(B)) /\ k >= 2

====
